---- MODULE Spec2Model ----
(***************************************************************************)
(* Calldata construction for the Uniswap V3 staker (src/src/staker.rs):    *)
(* encode_incentive_key, encode_claim, collect_rewards, withdraw_token and *)
(* encode_deposit, modelled at the level of bytes, together with the       *)
(* staker contract that executes the emitted multicall.                    *)
(*                                                                         *)
(* A byte string is a sequence of numbers 0..255.  An Address is a         *)
(* sequence of 20 bytes, a U256 is a natural number (below 2^31 here), an  *)
(* Option is the empty sequence (None) or a one-element sequence (Some).   *)
(***************************************************************************)
EXTENDS Integers, Sequences, FiniteSets, TLC

(***************************************************************************)
(* Bounds of the model.                                                    *)
(***************************************************************************)
\* longest incentive-key list the callers pass
MaxKeys == 2

(***************************************************************************)
(* Bytes and ABI words.                                                    *)
(***************************************************************************)
Zeros(n) == [i \in 1..n |-> 0]

\* a U256 as its 32 big-endian bytes
Uint256(v) ==
    Zeros(28) \o << (v \div 16777216) % 256, (v \div 65536) % 256,
                   (v \div 256) % 256, v % 256 >>

\* an address as an ABI word: left-padded with 12 zero bytes
AddressWord(a) == Zeros(12) \o a

\* a dynamic value's content, right-padded with zeros to a multiple of 32 bytes
PadRight(b) == b \o Zeros((32 - (Len(b) % 32)) % 32)

\* the address 0x00..0n
Addr(n) == Zeros(19) \o <<n>>

(***************************************************************************)
(* The 4-byte selectors of the staker interface.                           *)
(***************************************************************************)
SEL_multicall == <<172, 150, 80, 216>>
SEL_unstakeToken == <<245, 73, 171, 66>>
SEL_claimReward == <<47, 45, 120, 61>>
SEL_stakeToken == <<242, 210, 144, 155>>
SEL_withdrawToken == <<60, 66, 63, 11>>

(***************************************************************************)
(* Input values.                                                           *)
(***************************************************************************)
REWARD ==
    <<31, 152, 64, 168, 93, 90, 245, 191, 29, 23,
      98, 249, 37, 189, 173, 220, 66, 1, 249, 132>>
REWARD_B == Addr(11)
RECIPIENT == Addr(3)
SENDER == Addr(4)

\* Pool::address(None, None): the pool's address, derived from its token
\* pair, fee and factory; a fixed address per pool
pool_address(pool) ==
    IF pool = "POOL_0_1"
    THEN <<79, 166, 59, 13, 234, 135, 210, 205, 81, 159,
           59, 103, 165, 221, 177, 69, 119, 155, 123, 210>>
    ELSE Addr(34)

INCENTIVE_KEY ==
    [reward_token |-> REWARD, pool |-> "POOL_0_1", start_time |-> 100,
     end_time |-> 200, refundee |-> Addr(1)]
INCENTIVE_KEY_2 ==
    [reward_token |-> REWARD, pool |-> "POOL_0_1", start_time |-> 50,
     end_time |-> 100, refundee |-> Addr(137)]
INCENTIVE_KEY_3 ==
    [reward_token |-> REWARD_B, pool |-> "POOL_1_WETH", start_time |-> 300,
     end_time |-> 70000, refundee |-> Addr(1)]
Keys == {INCENTIVE_KEY, INCENTIVE_KEY_2, INCENTIVE_KEY_3}

KeyLists == UNION {[1..n -> Keys] : n \in 0..MaxKeys}

TokenIds == {1, 2}
Amounts == {<<>>, <<0>>, <<1>>}
ClaimOptionsSet ==
    [token_id : TokenIds, recipient : {RECIPIENT}, amount : Amounts]
DATA == Zeros(19) \o <<8>>
WithdrawOptionsSet ==
    [owner : {SENDER},
     data : {<<>>, << <<>> >>, << DATA >>, << Zeros(32) \o <<7>> >>}]

\* a variant of unwrap_or_default_bytes: absent data becomes one zero byte
unwrap_or_zero_byte(o) == IF o = <<>> THEN <<0>> ELSE o[1]

\* a variant of unwrap_or_default_u256: an absent amount becomes the largest
\* amount instead of zero
unwrap_or_max_u256(o) == IF o = <<>> THEN 2147483647 ELSE o[1]

\* Option::unwrap_or_default for U256 (default 0) and Vec<u8> (default empty)
unwrap_or_default_u256(o) == IF o = <<>> THEN 0 ELSE o[1]
unwrap_or_default_bytes(o) == IF o = <<>> THEN <<>> ELSE o[1]

(***************************************************************************)
(* encode_incentive_key and the ABI encoding of the sol types.             *)
(***************************************************************************)
encode_incentive_key(incentive_key) ==
    [rewardToken |-> incentive_key.reward_token,
     pool |-> pool_address(incentive_key.pool),
     startTime |-> incentive_key.start_time,
     endTime |-> incentive_key.end_time,
     refundee |-> incentive_key.refundee]

\* IUniswapV3Staker::IncentiveKey::abi_encode: a static tuple of five words
abi_encode_key(key) ==
    AddressWord(key.rewardToken) \o AddressWord(key.pool)
        \o Uint256(key.startTime) \o Uint256(key.endTime)
        \o AddressWord(key.refundee)

\* Vec<IUniswapV3Staker::IncentiveKey>::abi_encode: offset, length, tuples
abi_encode_key_array(keys) ==
    LET body[i \in 0..Len(keys)] ==
            IF i = 0 THEN <<>> ELSE body[i - 1] \o abi_encode_key(keys[i])
    IN Uint256(32) \o Uint256(Len(keys)) \o body[Len(keys)]

unstakeTokenCall(key, tokenId) ==
    [fn |-> "unstakeToken", key |-> key, tokenId |-> tokenId]
claimRewardCall(rewardToken, to, amountRequested) ==
    [fn |-> "claimReward", rewardToken |-> rewardToken, to |-> to,
     amountRequested |-> amountRequested]
stakeTokenCall(key, tokenId) ==
    [fn |-> "stakeToken", key |-> key, tokenId |-> tokenId]
withdrawTokenCall(tokenId, to, data) ==
    [fn |-> "withdrawToken", tokenId |-> tokenId, to |-> to, data |-> data]

\* SolCall::abi_encode: the selector, then the arguments
abi_encode_call(call) ==
    CASE call.fn = "unstakeToken" ->
            SEL_unstakeToken \o abi_encode_key(call.key) \o Uint256(call.tokenId)
      [] call.fn = "claimReward" ->
            SEL_claimReward \o AddressWord(call.rewardToken)
                \o AddressWord(call.to) \o Uint256(call.amountRequested)
      [] call.fn = "stakeToken" ->
            SEL_stakeToken \o abi_encode_key(call.key) \o Uint256(call.tokenId)
      [] call.fn = "withdrawToken" ->
            SEL_withdrawToken \o Uint256(call.tokenId) \o AddressWord(call.to)
                \o Uint256(96) \o Uint256(Len(call.data)) \o PadRight(call.data)

\* encode_multicall: multicall(bytes[]) over the ordered call payloads
encode_multicall(datas) ==
    LET n == Len(datas)
        elem(i) == Uint256(Len(datas[i])) \o PadRight(datas[i])
        offset[i \in 1..n] ==
            IF i = 1 THEN 32 * n ELSE offset[i - 1] + Len(elem(i - 1))
        heads[i \in 0..n] ==
            IF i = 0 THEN <<>> ELSE heads[i - 1] \o Uint256(offset[i])
        tails[i \in 0..n] ==
            IF i = 0 THEN <<>> ELSE tails[i - 1] \o elem(i)
    IN SEL_multicall \o Uint256(32) \o Uint256(n) \o heads[n] \o tails[n]

(***************************************************************************)
(* The operations of staker.rs.                                            *)
(***************************************************************************)
\* a variant of encode_claim: the claimReward payload comes first
encode_claim_claim_first(incentive_key, options) ==
    << abi_encode_call(claimRewardCall(incentive_key.reward_token,
                                       options.recipient,
                                       unwrap_or_default_u256(options.amount))),
       abi_encode_call(unstakeTokenCall(encode_incentive_key(incentive_key),
                                        options.token_id)) >>

\* a variant of encode_claim: the claimReward arguments rewardToken and to
\* change places
encode_claim_swapped_args(incentive_key, options) ==
    << abi_encode_call(unstakeTokenCall(encode_incentive_key(incentive_key),
                                        options.token_id)),
       abi_encode_call(claimRewardCall(options.recipient,
                                       incentive_key.reward_token,
                                       unwrap_or_default_u256(options.amount))) >>

encode_claim(incentive_key, options) ==
    << abi_encode_call(unstakeTokenCall(encode_incentive_key(incentive_key),
                                        options.token_id)),
       abi_encode_call(claimRewardCall(incentive_key.reward_token,
                                       options.recipient,
                                       unwrap_or_default_u256(options.amount))) >>

\* a variant of the loop of collect_rewards: the re-stake is pushed before
\* the unstake and the claim
collect_rewards_calldatas_stake_first(keys, options) ==
    LET acc[i \in 0..Len(keys)] ==
            IF i = 0 THEN <<>>
            ELSE acc[i - 1]
                   \o << abi_encode_call(stakeTokenCall(
                            encode_incentive_key(keys[i]), options.token_id)) >>
                   \o encode_claim(keys[i], options)
    IN acc[Len(keys)]

\* a variant of the loop of collect_rewards: no re-stake is pushed
collect_rewards_calldatas_no_restake(keys, options) ==
    LET acc[i \in 0..Len(keys)] ==
            IF i = 0 THEN <<>>
            ELSE acc[i - 1] \o encode_claim(keys[i], options)
    IN acc[Len(keys)]

\* a variant of the loop of collect_rewards: a key that occurred earlier in
\* the list is skipped
collect_rewards_calldatas_dedup(keys, options) ==
    LET acc[i \in 0..Len(keys)] ==
            IF i = 0 THEN <<>>
            ELSE IF \E j \in 1..(i - 1) : keys[j] = keys[i] THEN acc[i - 1]
            ELSE acc[i - 1] \o encode_claim(keys[i], options)
                   \o << abi_encode_call(stakeTokenCall(
                            encode_incentive_key(keys[i]), options.token_id)) >>
    IN acc[Len(keys)]

\* the loop of collect_rewards: the call list handed to encode_multicall
collect_rewards_calldatas(keys, options) ==
    LET acc[i \in 0..Len(keys)] ==
            IF i = 0 THEN <<>>
            ELSE acc[i - 1] \o encode_claim(keys[i], options)
                   \o << abi_encode_call(stakeTokenCall(
                            encode_incentive_key(keys[i]), options.token_id)) >>
    IN acc[Len(keys)]

\* a variant of collect_rewards: the requested amount is attached as value
collect_rewards_with_value(keys, options) ==
    [calldata |-> encode_multicall(collect_rewards_calldatas(keys, options)),
     value |-> unwrap_or_default_u256(options.amount)]

collect_rewards(keys, options) ==
    [calldata |-> encode_multicall(collect_rewards_calldatas(keys, options)),
     value |-> 0]

\* a variant of withdraw_token's call list: every key is re-staked, as in
\* collect_rewards
withdraw_token_calldatas_restake(keys, full) ==
    collect_rewards_calldatas(keys, full.claim_options)
        \o << abi_encode_call(withdrawTokenCall(
                 full.claim_options.token_id, full.withdraw_options.owner,
                 unwrap_or_default_bytes(full.withdraw_options.data))) >>

\* a variant of withdraw_token's call list: the loop stops before the last key
withdraw_token_calldatas_skip_last(keys, full) ==
    LET acc[i \in 0..Len(keys)] ==
            IF i = 0 THEN <<>>
            ELSE acc[i - 1] \o encode_claim(keys[i], full.claim_options)
    IN (IF Len(keys) = 0 THEN <<>> ELSE acc[Len(keys) - 1])
         \o << abi_encode_call(withdrawTokenCall(
                  full.claim_options.token_id, full.withdraw_options.owner,
                  unwrap_or_default_bytes(full.withdraw_options.data))) >>

\* the loop and the final push of withdraw_token
withdraw_token_calldatas(keys, full) ==
    LET acc[i \in 0..Len(keys)] ==
            IF i = 0 THEN <<>>
            ELSE acc[i - 1] \o encode_claim(keys[i], full.claim_options)
        owner == full.withdraw_options.owner
    IN acc[Len(keys)]
         \o << abi_encode_call(withdrawTokenCall(
                  full.claim_options.token_id, owner,
                  unwrap_or_default_bytes(full.withdraw_options.data))) >>

withdraw_token(keys, full) ==
    [calldata |-> encode_multicall(withdraw_token_calldatas(keys, full)),
     value |-> 0]

\* a variant of encode_deposit: an empty list returns no bytes
encode_deposit_empty_returns_nothing(keys) ==
    IF Len(keys) = 0 THEN <<>>
    ELSE IF Len(keys) = 1
    THEN abi_encode_key(encode_incentive_key(keys[1]))
    ELSE abi_encode_key_array([i \in 1..Len(keys) |->
                                  encode_incentive_key(keys[i])])

\* a variant of encode_deposit: one key is encoded as an array of one tuple
encode_deposit_always_array(keys) ==
    abi_encode_key_array([i \in 1..Len(keys) |-> encode_incentive_key(keys[i])])

encode_deposit(keys) ==
    IF Len(keys) = 1
    THEN abi_encode_key(encode_incentive_key(keys[1]))
    ELSE abi_encode_key_array([i \in 1..Len(keys) |->
                                  encode_incentive_key(keys[i])])

(***************************************************************************)
(* Decoding against the staker ABI.  A malformed input decodes to -1 (a    *)
(* number), to the empty sequence (bytes) or to the call "unknown".        *)
(***************************************************************************)
Slice(b, off, n) == IF Len(b) >= off + n THEN SubSeq(b, off + 1, off + n) ELSE <<>>

ReadUint(b, off) ==
    IF off < 0 \/ Len(b) < off + 32 THEN -1
    ELSE IF \E i \in 1..28 : b[off + i] # 0 THEN -1
    ELSE IF b[off + 29] >= 128 THEN -1
    ELSE b[off + 29] * 16777216 + b[off + 30] * 65536
           + b[off + 31] * 256 + b[off + 32]

ReadAddress(b, off) ==
    IF Len(b) < off + 32 \/ (\E i \in 1..12 : b[off + i] # 0) THEN <<>>
    ELSE SubSeq(b, off + 13, off + 32)

ReadKey(b, off) ==
    [rewardToken |-> ReadAddress(b, off), pool |-> ReadAddress(b, off + 32),
     startTime |-> ReadUint(b, off + 64), endTime |-> ReadUint(b, off + 96),
     refundee |-> ReadAddress(b, off + 128)]

\* a dynamic bytes value whose length word is at offset off
ReadBytes(b, off) ==
    LET n == ReadUint(b, off)
    IN IF n < 0 \/ Len(b) < off + 32 + n THEN <<>> ELSE Slice(b, off + 32, n)

\* one call payload: the selector picks the function, the rest its arguments
abi_decode_call(payload) ==
    LET sel == Slice(payload, 0, 4)
        args == SubSeq(payload, 5, Len(payload))
    IN CASE sel = SEL_unstakeToken /\ Len(args) = 192 ->
                unstakeTokenCall(ReadKey(args, 0), ReadUint(args, 160))
         [] sel = SEL_stakeToken /\ Len(args) = 192 ->
                stakeTokenCall(ReadKey(args, 0), ReadUint(args, 160))
         [] sel = SEL_claimReward /\ Len(args) = 96 ->
                claimRewardCall(ReadAddress(args, 0), ReadAddress(args, 32),
                                ReadUint(args, 64))
         [] sel = SEL_withdrawToken /\ Len(args) >= 128 ->
                withdrawTokenCall(ReadUint(args, 0), ReadAddress(args, 32),
                                  ReadBytes(args, ReadUint(args, 64)))
         [] OTHER -> [fn |-> "unknown"]

\* multicall(bytes[]): the ordered payloads of a multicall calldata
abi_decode_multicall(data) ==
    LET args == SubSeq(data, 5, Len(data))
        n == ReadUint(args, 32)
    IN IF Slice(data, 0, 4) # SEL_multicall \/ ReadUint(args, 0) # 32 \/ n < 0
       THEN << <<>> >>
       ELSE [i \in 1..n |->
                LET off == ReadUint(args, 64 + 32 * (i - 1))
                IN IF off < 0 THEN <<>> ELSE ReadBytes(args, 64 + off)]

(***************************************************************************)
(* State.                                                                  *)
(***************************************************************************)
VARIABLES
    incentive_keys,    \* the key list passed to the operation
    options,           \* ClaimOptions (claim_options of FullWithdrawOptions)
    withdraw_options,  \* WithdrawOptions
    op,                \* the operation called: "none" before the call
    error,             \* the error the operation returned: "none" for a value
    calldatas,         \* the call list handed to encode_multicall
    calldata,          \* MethodParameters.calldata
    value,             \* MethodParameters.value
    deposit,           \* the bytes encode_deposit returned
    tx,                \* the multicall transaction: none, running, success, reverted
    pending,           \* the calls of the transaction not yet executed
    stakes,            \* staker contract: the (key, tokenId) stakes
    stakes0,           \* the stakes when the transaction started
    rewards,           \* staker contract: rewards owed to the caller per token
    paid,              \* reward tokens transferred to the recipient
    withdrawn,         \* token ids transferred back out of the staker
    reason             \* the revert reason of a reverted transaction

vars ==
    << incentive_keys, options, withdraw_options, op, error, calldatas,
       calldata, value, deposit, tx, pending, stakes, stakes0, rewards, paid,
       withdrawn, reason >>

inputs == << incentive_keys, options, withdraw_options >>
outputs == << op, error, calldatas, calldata, value, deposit >>
chain == << tx, pending, stakes, stakes0, rewards, paid, withdrawn, reason >>

RewardTokens == {k.reward_token : k \in Keys}
EncodedKeys == {encode_incentive_key(k) : k \in Keys}
NoRewards == [t \in RewardTokens |-> 0]

Init ==
    /\ incentive_keys \in KeyLists
    /\ options \in ClaimOptionsSet
    /\ withdraw_options \in WithdrawOptionsSet
    /\ op = "none"
    /\ error = "none"
    /\ calldatas = <<>>
    /\ calldata = <<>>
    /\ value = 0
    /\ deposit = <<>>
    /\ tx = "none"
    /\ pending = <<>>
    /\ stakes = {}
    /\ stakes0 = {}
    /\ rewards = NoRewards
    /\ paid = NoRewards
    /\ withdrawn = {}
    /\ reason = ""

(***************************************************************************)
(* The three operations, each one call of the function.                    *)
(***************************************************************************)
CollectRewards ==
    /\ op = "none"
    /\ op' = "collect_rewards"
    /\ calldatas' = collect_rewards_calldatas(incentive_keys, options)
    /\ calldata' = collect_rewards(incentive_keys, options).calldata
    /\ value' = collect_rewards(incentive_keys, options).value
    /\ UNCHANGED << inputs, error, deposit, chain >>

FullWithdrawOptions ==
    [claim_options |-> options, withdraw_options |-> withdraw_options]

WithdrawToken ==
    /\ op = "none"
    /\ op' = "withdraw_token"
    /\ calldatas' = withdraw_token_calldatas(incentive_keys, FullWithdrawOptions)
    /\ calldata' = withdraw_token(incentive_keys, FullWithdrawOptions).calldata
    /\ value' = withdraw_token(incentive_keys, FullWithdrawOptions).value
    /\ UNCHANGED << inputs, error, deposit, chain >>

EncodeDeposit ==
    /\ op = "none"
    /\ op' = "encode_deposit"
    /\ deposit' = encode_deposit(incentive_keys)
    /\ UNCHANGED << inputs, error, calldatas, calldata, value, chain >>

(***************************************************************************)
(* The staker contract executing the multicall: the calls run in order in  *)
(* one transaction, and a revert of any call undoes the whole transaction. *)
(***************************************************************************)
\* the transaction is sent to a staker in which the token is staked in the
\* programs of staked
Submit ==
    /\ op \in {"collect_rewards", "withdraw_token"}
    /\ tx = "none"
    /\ \E staked \in SUBSET EncodedKeys :
          /\ stakes' = {[key |-> k, tokenId |-> options.token_id] : k \in staked}
          /\ stakes0' = stakes'
    /\ tx' = "running"
    /\ pending' = abi_decode_multicall(calldata)
    /\ UNCHANGED << inputs, outputs, rewards, paid, withdrawn, reason >>

Revert(why) ==
    /\ tx' = "reverted"
    /\ reason' = why
    /\ pending' = <<>>
    /\ stakes' = stakes0
    /\ rewards' = NoRewards
    /\ paid' = NoRewards
    /\ withdrawn' = {}
    /\ UNCHANGED << inputs, outputs, stakes0 >>

NextCall == abi_decode_call(Head(pending))

\* the reward a position accrues in a program until it is unstaked
Accrued == 2

ExecUnstake ==
    /\ tx = "running" /\ pending # <<>>
    /\ NextCall.fn = "unstakeToken"
    /\ LET stake == [key |-> NextCall.key, tokenId |-> NextCall.tokenId]
       IN IF stake \in stakes
          THEN /\ stakes' = stakes \ {stake}
               /\ rewards' = [rewards EXCEPT ![stake.key.rewardToken] = @ + Accrued]
               /\ pending' = Tail(pending)
               /\ UNCHANGED << inputs, outputs, tx, stakes0, paid, withdrawn, reason >>
          ELSE Revert("stake does not exist")

ExecClaim ==
    /\ tx = "running" /\ pending # <<>>
    /\ NextCall.fn = "claimReward"
    /\ LET token == NextCall.rewardToken
           owed == IF token \in RewardTokens THEN rewards[token] ELSE 0
           req == NextCall.amountRequested
           reward == IF req # 0 /\ req < owed THEN req ELSE owed
       IN /\ rewards' = [t \in RewardTokens |->
                            IF t = token THEN rewards[t] - reward ELSE rewards[t]]
          /\ paid' = [t \in RewardTokens |->
                         IF t = token THEN paid[t] + reward ELSE paid[t]]
    /\ pending' = Tail(pending)
    /\ UNCHANGED << inputs, outputs, tx, stakes, stakes0, withdrawn, reason >>

ExecStake ==
    /\ tx = "running" /\ pending # <<>>
    /\ NextCall.fn = "stakeToken"
    /\ LET stake == [key |-> NextCall.key, tokenId |-> NextCall.tokenId]
       IN IF stake \notin stakes
          THEN /\ stakes' = stakes \cup {stake}
               /\ pending' = Tail(pending)
               /\ UNCHANGED << inputs, outputs, tx, stakes0, rewards, paid,
                               withdrawn, reason >>
          ELSE Revert("token already staked")

ExecWithdraw ==
    /\ tx = "running" /\ pending # <<>>
    /\ NextCall.fn = "withdrawToken"
    /\ IF \A s \in stakes : s.tokenId # NextCall.tokenId
       THEN /\ withdrawn' = withdrawn \cup {NextCall.tokenId}
            /\ pending' = Tail(pending)
            /\ UNCHANGED << inputs, outputs, tx, stakes, stakes0, rewards, paid,
                            reason >>
       ELSE Revert("cannot withdraw token while staked")

ExecDone ==
    /\ tx = "running" /\ pending = <<>>
    /\ tx' = "success"
    /\ UNCHANGED << inputs, outputs, pending, stakes, stakes0, rewards, paid,
                    withdrawn, reason >>

Next ==
    \/ CollectRewards
    \/ WithdrawToken
    \/ EncodeDeposit
    \/ Submit
    \/ ExecUnstake
    \/ ExecClaim
    \/ ExecStake
    \/ ExecWithdraw
    \/ ExecDone

Spec == Init /\ [][Next]_vars

(***************************************************************************)
(* What the properties below read from a state.                            *)
(***************************************************************************)
N == Len(incentive_keys)

\* the tuple the contract expects for an IncentiveKey
KeyTupleOf(k) ==
    [rewardToken |-> k.reward_token, pool |-> pool_address(k.pool),
     startTime |-> k.start_time, endTime |-> k.end_time,
     refundee |-> k.refundee]

\* the requested amount of every claimReward call
Requested == IF options.amount = <<>> THEN 0 ELSE options.amount[1]

\* the bytes of the key tuple in an unstakeToken or stakeToken payload
KeyBytes(payload) == Slice(payload, 4, 160)

Decoded(payloads) == [i \in 1..Len(payloads) |-> abi_decode_call(payloads[i])]

(***************************************************************************)
(* C1: for a key list of length N >= 1, the call list collect_rewards      *)
(* hands to the aggregator has exactly 3N entries, and entries 3i-2, 3i-1, *)
(* 3i are unstakeToken(key_i, token_id), claimReward(reward_token_i,       *)
(* recipient, amount), stakeToken(key_i, token_id), the stake call         *)
(* carrying the same encoded key tuple as the unstake call.                *)
(***************************************************************************)
C1_CollectRewardsCallList ==
    (op = "collect_rewards" /\ N >= 1) =>
        /\ Len(calldatas) = 3 * N
        /\ \A i \in 1..N :
              /\ abi_decode_call(calldatas[3 * i - 2])
                    = unstakeTokenCall(KeyTupleOf(incentive_keys[i]),
                                       options.token_id)
              /\ abi_decode_call(calldatas[3 * i - 1])
                    = claimRewardCall(incentive_keys[i].reward_token,
                                      options.recipient, Requested)
              /\ abi_decode_call(calldatas[3 * i])
                    = stakeTokenCall(KeyTupleOf(incentive_keys[i]),
                                     options.token_id)
              /\ KeyBytes(calldatas[3 * i]) = KeyBytes(calldatas[3 * i - 2])
              /\ Len(KeyBytes(calldatas[3 * i])) = 160

C1_Witness ==
    /\ op = "collect_rewards"
    /\ N = 2
    /\ incentive_keys[1] # incentive_keys[2]
    /\ Len(calldatas) = 6
    /\ Slice(calldatas[6], 0, 4) = SEL_stakeToken

(***************************************************************************)
(* C2: for a key list of length N >= 1, the call list withdraw_token hands *)
(* to the aggregator has exactly 2N+1 entries: entries 2i-1 and 2i are     *)
(* unstakeToken(key_i, token_id) and claimReward(reward_token_i,           *)
(* recipient, amount), no stakeToken call appears, and the last entry is   *)
(* the only withdrawToken call.                                            *)
(***************************************************************************)
C2_WithdrawTokenCallList ==
    (op = "withdraw_token" /\ N >= 1) =>
        /\ Len(calldatas) = 2 * N + 1
        /\ \A i \in 1..N :
              /\ abi_decode_call(calldatas[2 * i - 1])
                    = unstakeTokenCall(KeyTupleOf(incentive_keys[i]),
                                       options.token_id)
              /\ abi_decode_call(calldatas[2 * i])
                    = claimRewardCall(incentive_keys[i].reward_token,
                                      options.recipient, Requested)
        /\ \A j \in 1..Len(calldatas) :
              /\ Slice(calldatas[j], 0, 4) # SEL_stakeToken
              /\ (Slice(calldatas[j], 0, 4) = SEL_withdrawToken)
                    <=> (j = Len(calldatas))

C2_Witness ==
    /\ op = "withdraw_token"
    /\ N = 2
    /\ incentive_keys[1] # incentive_keys[2]
    /\ Len(calldatas) = 5
    /\ Slice(calldatas[5], 0, 4) = SEL_withdrawToken

(***************************************************************************)
(* C3: encode_deposit on exactly one key returns the bare ABI tuple of     *)
(* that key (five words, no offset word, no length word); on two or more   *)
(* keys it returns a dynamic array of tuples (offset word, length word     *)
(* equal to the number of keys, then the tuples in input order); the       *)
(* one-key output is never byte-identical to an array-shaped output        *)
(* containing that same key.                                               *)
(***************************************************************************)
C3_EncodeDepositShape ==
    (op = "encode_deposit") =>
        /\ (N = 1) =>
              /\ Len(deposit) = 160
              /\ ReadKey(deposit, 0) = KeyTupleOf(incentive_keys[1])
              /\ deposit # Uint256(32) \o Uint256(1) \o deposit
              /\ deposit # abi_encode_key_array(<<KeyTupleOf(incentive_keys[1])>>)
        /\ (N >= 2) =>
              /\ Len(deposit) = 64 + 160 * N
              /\ ReadUint(deposit, 0) = 32
              /\ ReadUint(deposit, 32) = N
              /\ \A i \in 1..N :
                    ReadKey(deposit, 64 + 160 * (i - 1))
                        = KeyTupleOf(incentive_keys[i])

C3_Witness ==
    /\ op = "encode_deposit"
    /\ N = 1
    /\ Len(deposit) = 160
    /\ ReadAddress(deposit, 0) = incentive_keys[1].reward_token

(***************************************************************************)
(* C4: an empty incentive-key list is rejected with an error of kind       *)
(* EmptyIncentiveKeyList by collect_rewards, withdraw_token and            *)
(* encode_deposit, before any encoding happens, instead of producing       *)
(* output.                                                                 *)
(***************************************************************************)
C4_EmptyListRejected ==
    (op # "none" /\ N = 0) =>
        /\ error = "EmptyIncentiveKeyList"
        /\ calldatas = <<>>
        /\ calldata = <<>>
        /\ deposit = <<>>

(***************************************************************************)
(* C5: collect_rewards and withdraw_token produce byte-identical calldata  *)
(* for amount None and for amount Some(0): an absent amount is encoded as  *)
(* the literal zero in the amountRequested argument of every claimReward   *)
(* call.                                                                   *)
(***************************************************************************)
WithZeroAmount == [options EXCEPT !.amount = <<0>>]

C5_NoneEncodesAsZero ==
    (op \in {"collect_rewards", "withdraw_token"}
        /\ options.amount \in {<<>>, <<0>>}) =>
        /\ (op = "collect_rewards") =>
              calldata = collect_rewards(incentive_keys, WithZeroAmount).calldata
        /\ (op = "withdraw_token") =>
              calldata = withdraw_token(incentive_keys,
                            [claim_options |-> WithZeroAmount,
                             withdraw_options |-> withdraw_options]).calldata
        /\ \A j \in 1..Len(calldatas) :
              (Slice(calldatas[j], 0, 4) = SEL_claimReward) =>
                  Slice(calldatas[j], 68, 32) = Zeros(32)
        /\ \A j \in 1..Len(abi_decode_multicall(calldata)) :
              LET payload == abi_decode_multicall(calldata)[j]
              IN (Slice(payload, 0, 4) = SEL_claimReward) =>
                     Slice(payload, 68, 32) = Zeros(32)

C5_Witness ==
    /\ op = "collect_rewards"
    /\ options.amount = <<>>
    /\ N = 2
    /\ Slice(calldatas[2], 0, 4) = SEL_claimReward
    /\ Slice(calldatas[2], 68, 32) = Zeros(32)

(***************************************************************************)
(* C6: the MethodParameters returned by collect_rewards and by             *)
(* withdraw_token always has attached value zero.                          *)
(***************************************************************************)
C6_ValueIsZero ==
    (op \in {"collect_rewards", "withdraw_token"}) =>
        /\ value = 0
        /\ collect_rewards(incentive_keys, options).value = 0
        /\ withdraw_token(incentive_keys, FullWithdrawOptions).value = 0

C6_Witness ==
    /\ op = "collect_rewards"
    /\ N >= 1
    /\ options.amount = <<1>>
    /\ calldata # <<>>
    /\ value = 0

(***************************************************************************)
(* C7: keys are processed in the order the caller supplied them and are    *)
(* never reordered or deduplicated: in collect_rewards, withdraw_token and *)
(* the array form of encode_deposit the i-th group of the output is built  *)
(* from the i-th input key, and a key that occurs k times in the input     *)
(* yields k groups in the output.                                          *)
(***************************************************************************)
\* the key tuples of the groups of the output, in output order
GroupKeys ==
    CASE op = "collect_rewards" ->
            [g \in 1..(Len(calldatas) \div 3) |->
                ReadKey(calldatas[3 * g - 2], 4)]
      [] op = "withdraw_token" ->
            [g \in 1..((Len(calldatas) - 1) \div 2) |->
                ReadKey(calldatas[2 * g - 1], 4)]
      [] op = "encode_deposit" ->
            [g \in 1..((Len(deposit) - 64) \div 160) |->
                ReadKey(deposit, 64 + 160 * (g - 1))]

Occurrences(seq, x) == Cardinality({i \in 1..Len(seq) : seq[i] = x})

C7_CallerOrderKept ==
    (op \in {"collect_rewards", "withdraw_token"}
        \/ (op = "encode_deposit" /\ N >= 2)) =>
        /\ GroupKeys = [i \in 1..N |-> KeyTupleOf(incentive_keys[i])]
        /\ \A k \in Keys :
              Occurrences(GroupKeys, KeyTupleOf(k))
                  = Occurrences(incentive_keys, k)
        /\ (op = "collect_rewards") =>
              \A i \in 1..N : ReadKey(calldatas[3 * i], 4) = GroupKeys[i]

C7_Witness ==
    /\ op = "collect_rewards"
    /\ N = 2
    /\ incentive_keys[1] = incentive_keys[2]
    /\ Len(GroupKeys) = 2
    /\ GroupKeys[1] = GroupKeys[2]

(***************************************************************************)
(* C8: round trip: decoding the calldata produced by collect_rewards or    *)
(* withdraw_token against the staker ABI (multicall of byte strings, each  *)
(* a selector plus arguments) reconstructs exactly the ordered call list   *)
(* that was built: the same number of calls, the same selector at each     *)
(* position and the same arguments.                                        *)
(***************************************************************************)
\* the calls the operation builds from its arguments, in order
BuiltCalls ==
    LET group(i) ==
            << unstakeTokenCall(KeyTupleOf(incentive_keys[i]), options.token_id),
               claimRewardCall(incentive_keys[i].reward_token, options.recipient,
                               Requested) >>
                \o (IF op = "collect_rewards"
                    THEN << stakeTokenCall(KeyTupleOf(incentive_keys[i]),
                                           options.token_id) >>
                    ELSE <<>>)
        acc[i \in 0..N] == IF i = 0 THEN <<>> ELSE acc[i - 1] \o group(i)
    IN acc[N]
         \o (IF op = "withdraw_token"
             THEN << withdrawTokenCall(options.token_id, withdraw_options.owner,
                        IF withdraw_options.data = <<>> THEN <<>>
                        ELSE withdraw_options.data[1]) >>
             ELSE <<>>)

C8_RoundTrip ==
    (op \in {"collect_rewards", "withdraw_token"}) =>
        /\ abi_decode_multicall(calldata) = calldatas
        /\ Decoded(abi_decode_multicall(calldata)) = BuiltCalls
        /\ \A j \in 1..Len(calldatas) :
              abi_encode_call(abi_decode_call(calldatas[j])) = calldatas[j]

C8_Witness ==
    /\ op = "withdraw_token"
    /\ N = 2
    /\ withdraw_options.data = << DATA >>
    /\ Len(abi_decode_multicall(calldata)) = 5
    /\ abi_decode_call(abi_decode_multicall(calldata)[5]).data = DATA

(***************************************************************************)
(* The transaction as the properties below read it.                        *)
(***************************************************************************)
\* the programs of the key list
Listed == {KeyTupleOf(incentive_keys[i]) : i \in 1..N}

\* the programs the token was staked in when the transaction started
Staked0 == {s.key : s \in stakes0}

Finished == tx \in {"success", "reverted"}

NoRepeat == \A i, j \in 1..N : i # j => incentive_keys[i] # incentive_keys[j]

\* the reward accrued in the listed programs that pay in token t
AccruedIn(t) == Accrued * Cardinality({i \in 1..N : incentive_keys[i].reward_token = t})

(***************************************************************************)
(* C9: net effect of collect_rewards: when the emitted calls are executed  *)
(* in order, atomically, against a staker in which the token is staked in  *)
(* every listed program, the set of programs the token is staked in after  *)
(* the last call equals the set before the first call; only accrued        *)
(* rewards have moved to the recipient.                                    *)
(***************************************************************************)
C9_CollectRewardsNetEffect ==
    (op = "collect_rewards" /\ Finished /\ Listed \subseteq Staked0) =>
        /\ tx = "success"
        /\ stakes = stakes0
        /\ withdrawn = {}
        /\ \A t \in RewardTokens :
              /\ paid[t] + rewards[t] = AccruedIn(t)
              /\ (Requested = 0) => paid[t] = AccruedIn(t)

C9_Witness ==
    /\ op = "collect_rewards"
    /\ tx = "success"
    /\ N = 2
    /\ Listed \subseteq Staked0
    /\ Cardinality(Staked0) = 3
    /\ stakes = stakes0
    /\ paid[REWARD] > 0

(***************************************************************************)
(* C10, as stated: withdraw_token encodes any list; when the emitted calls *)
(* are executed in order against a staker in which the token is still      *)
(* staked in a program absent from the list, the final withdrawToken call  *)
(* reverts; when the list covers every program the token is staked in, the *)
(* withdraw call is reached with the token staked in no program.  Read in  *)
(* the claim's favour: the token is staked in some program, and in the     *)
(* first case any revert of the transaction counts.                        *)
(***************************************************************************)
C10_AsStated ==
    (op = "withdraw_token" /\ Finished /\ Staked0 # {}) =>
        IF Staked0 \subseteq Listed
        THEN tx = "success" /\ stakes = {} /\ options.token_id \in withdrawn
        ELSE tx = "reverted"

(***************************************************************************)
(* C10, amended: withdraw_token encodes any list it is given, whatever the *)
(* token is staked in.  Executed in order against a staker in which the    *)
(* token is still staked in a program absent from the list, the multicall  *)
(* reverts: at the final withdrawToken call when every listed key is a     *)
(* distinct program the token is staked in, at an earlier unstakeToken     *)
(* call otherwise.  When the list names exactly the programs the token is  *)
(* staked in, each once, the withdraw call is reached with the token       *)
(* staked in no program, and succeeds.                                     *)
(***************************************************************************)
C10_WithdrawTokenCoverage ==
    (op = "withdraw_token") =>
        /\ error = "none"
        /\ Len(calldatas) = 2 * N + 1
        /\ Decoded(calldatas)[2 * N + 1].fn = "withdrawToken"
        /\ (tx # "none") => Decoded(abi_decode_multicall(calldata)) = BuiltCalls
        /\ (Finished /\ ~(Staked0 \subseteq Listed)) =>
              /\ tx = "reverted"
              /\ stakes = stakes0
              /\ withdrawn = {}
              /\ (reason = "cannot withdraw token while staked")
                    <=> (NoRepeat /\ Listed \subseteq Staked0)
        /\ (tx = "running" /\ Len(pending) = 1) =>
              /\ NextCall.fn = "withdrawToken"
              /\ NoRepeat /\ Listed \subseteq Staked0
              /\ (Staked0 \subseteq Listed) <=> (stakes = {})
        /\ (Finished /\ NoRepeat /\ Listed = Staked0) =>
              /\ tx = "success"
              /\ stakes = {}
              /\ withdrawn = {options.token_id}

C10_Witness ==
    /\ op = "withdraw_token"
    /\ tx = "running"
    /\ Len(pending) = 1
    /\ N = 2
    /\ NoRepeat
    /\ Listed = Staked0
    /\ stakes = {}

(***************************************************************************)
(* C11: encode_claim returns exactly two payloads for one key and one      *)
(* ClaimOptions, strictly ordered: first the unstakeToken call carrying    *)
(* the encoded key tuple (rewardToken, pool address, startTime, endTime,   *)
(* refundee) and options.token_id, second the claimReward call carrying    *)
(* that key's reward token, options.recipient and the requested amount;    *)
(* the claim never precedes the unstake, and within one workflow call      *)
(* every unstake and stake call carries the same token id.                 *)
(***************************************************************************)
\* the selector of the j-th payload of the call list
Sel(j) == Slice(calldatas[j], 0, 4)

C11_EncodeClaimPair ==
    (op \in {"collect_rewards", "withdraw_token"}) =>
        /\ \A i \in 1..N :
              LET pair == encode_claim(incentive_keys[i], options)
                  k == incentive_keys[i]
              IN /\ Len(pair) = 2
                 /\ Slice(pair[1], 0, 4) = SEL_unstakeToken
                 /\ Len(pair[1]) = 4 + 192
                 /\ ReadAddress(pair[1], 4) = k.reward_token
                 /\ ReadAddress(pair[1], 36) = pool_address(k.pool)
                 /\ ReadUint(pair[1], 68) = k.start_time
                 /\ ReadUint(pair[1], 100) = k.end_time
                 /\ ReadAddress(pair[1], 132) = k.refundee
                 /\ ReadUint(pair[1], 164) = options.token_id
                 /\ Slice(pair[2], 0, 4) = SEL_claimReward
                 /\ Len(pair[2]) = 4 + 96
                 /\ ReadAddress(pair[2], 4) = k.reward_token
                 /\ ReadAddress(pair[2], 36) = options.recipient
                 /\ ReadUint(pair[2], 68) = Requested
        /\ \A j \in 1..Len(calldatas) :
              /\ (Sel(j) = SEL_claimReward) =>
                    /\ j > 1
                    /\ Sel(j - 1) = SEL_unstakeToken
                    /\ ReadAddress(calldatas[j - 1], 4)
                          = ReadAddress(calldatas[j], 4)
              /\ (Sel(j) \in {SEL_unstakeToken, SEL_stakeToken}) =>
                    ReadUint(calldatas[j], 164) = options.token_id

C11_Witness ==
    /\ op = "withdraw_token"
    /\ N = 2
    /\ options.token_id = 2
    /\ options.amount = <<1>>
    /\ Sel(3) = SEL_unstakeToken
    /\ Sel(4) = SEL_claimReward
    /\ ReadUint(calldatas[3], 164) = 2
    /\ ReadUint(calldatas[4], 68) = 1

(***************************************************************************)
(* C12: the single withdrawToken call that withdraw_token appends after    *)
(* all keys carries claim_options.token_id, withdraw_options.owner and     *)
(* withdraw_options.data, and absent data (None) is encoded as the empty   *)
(* byte string, so the output for data = None is byte-identical to the     *)
(* output for data = Some(empty).                                          *)
(***************************************************************************)
\* the data the caller passed, None read as no bytes
GivenData ==
    IF withdraw_options.data = <<>> THEN <<>> ELSE withdraw_options.data[1]

WithEmptyData ==
    [claim_options |-> options,
     withdraw_options |-> [withdraw_options EXCEPT !.data = << <<>> >>]]

C12_WithdrawCallArguments ==
    (op = "withdraw_token") =>
        LET last == calldatas[Len(calldatas)]
        IN /\ Len(calldatas) = 2 * N + 1
           /\ Slice(last, 0, 4) = SEL_withdrawToken
           /\ ReadUint(last, 4) = options.token_id
           /\ ReadAddress(last, 36) = withdraw_options.owner
           /\ ReadUint(last, 68) = 96
           /\ ReadUint(last, 100) = Len(GivenData)
           /\ Slice(last, 132, Len(GivenData)) = GivenData
           /\ Len(last) = 132 + 32 * ((Len(GivenData) + 31) \div 32)
           /\ abi_decode_call(last)
                 = withdrawTokenCall(options.token_id, withdraw_options.owner,
                                     GivenData)
           /\ Cardinality({j \in 1..Len(calldatas) : Sel(j) = SEL_withdrawToken})
                 = 1
           /\ (withdraw_options.data \in {<<>>, << <<>> >>}) =>
                 /\ Len(last) = 132
                 /\ calldatas
                       = withdraw_token_calldatas(incentive_keys, WithEmptyData)
                 /\ calldata
                       = withdraw_token(incentive_keys, WithEmptyData).calldata

C12_Witness ==
    /\ op = "withdraw_token"
    /\ N = 2
    /\ withdraw_options.data = <<>>
    /\ Len(calldatas) = 5
    /\ Sel(5) = SEL_withdrawToken
    /\ ReadUint(calldatas[5], 100) = 0
    /\ Len(calldatas[5]) = 132

(***************************************************************************)
(* C13: the three operations are total on the empty key list and extend    *)
(* their count formulas to N = 0 without any error: collect_rewards        *)
(* aggregates an empty call list (0 calls), withdraw_token aggregates a    *)
(* call list holding exactly one withdrawToken call, and encode_deposit    *)
(* takes the array branch and returns the encoding of a dynamic array of   *)
(* length 0.                                                               *)
(***************************************************************************)
C13_TotalOnEmptyList ==
    (op # "none" /\ N = 0) =>
        /\ error = "none"
        /\ (op = "collect_rewards") =>
              /\ calldatas = <<>>
              /\ Len(calldatas) = 3 * N
              /\ Slice(calldata, 0, 4) = SEL_multicall
              /\ ReadUint(calldata, 36) = 0
              /\ Len(calldata) = 68
              /\ value = 0
        /\ (op = "withdraw_token") =>
              /\ Len(calldatas) = 2 * N + 1
              /\ Sel(1) = SEL_withdrawToken
              /\ ReadUint(calldatas[1], 4) = options.token_id
              /\ Slice(calldata, 0, 4) = SEL_multicall
              /\ ReadUint(calldata, 36) = 1
              /\ value = 0
        /\ (op = "encode_deposit") =>
              /\ Len(deposit) = 64
              /\ ReadUint(deposit, 0) = 32
              /\ ReadUint(deposit, 32) = 0

C13_Witness ==
    /\ op = "encode_deposit"
    /\ N = 0
    /\ error = "none"
    /\ Len(deposit) = 64
    /\ ReadUint(deposit, 32) = 0

====
